---- MODULE Spec2Model ----
(***************************************************************************)
(* A model of the MFT entry decoder of analyzeMFT (src/parsers/mft.py).    *)
(*                                                                         *)
(* A raw entry is modelled by what the decoder can observe of it: its      *)
(* length, the fields of the entry header, and, for every stream offset    *)
(* at which the attribute scan reads, the fields of the attribute record   *)
(* found there.  The attribute records are drawn when the scan first reads *)
(* an offset and are kept in attrs, so that every later read of the same   *)
(* offset (by the same or by another MFTEntry object) sees the same bytes. *)
(* The body bytes of an attribute are the bytes its own header declares;   *)
(* layouts in which the declared value regions of two attributes overlap   *)
(* are not part of the model.                                              *)
(***************************************************************************)
EXTENDS Integers, Sequences, FiniteSets, TLC

(***************************************************************************)
(* Bounds of the model.                                                    *)
(***************************************************************************)
\* Iterations of the attribute scan loop that one parse() may take.
MaxIter == 3

(***************************************************************************)
(* Layout of the on-disk structures (src.structures.mft is not part of the *)
(* sources at hand; the sizes follow section 6 of the specification).      *)
(***************************************************************************)
\* BaseDirective.MFT_RECORD_SIZE
MFT_RECORD_SIZE == 1024
\* MFTEntryHeader.sizeof(): the last field, record_number, is at 44..47.
EntryHeaderSize == 48
\* MFTAttributeTypeCode.sizeof(): a 32-bit enumeration.
TypeCodeSize == 4
\* type_code(4) record_length(4) form_code(1) name_length(1) name_offset(2)
\* flags(2) attribute_id(2)
AttributeHeaderFixedSize == 16
\* value_length(4) value_offset(2) resident_flags(1)
ResidentFormSize == 7
\* The magic values of _parse_entry_header.
FILE_MAGIC == 1162627398
BAAD_MAGIC == 1145127234

\* Python's None and a present value.
None == <<>>
Some(x) == <<x>>

(***************************************************************************)
(* The keys MFTEntry.__init__ creates, and the attribute type codes.       *)
(***************************************************************************)
AttributeKeys ==
    { "standard_information", "attribute_list", "file_name", "object_id",
      "security_descriptor", "volume_name", "volume_information", "data",
      "index_root", "index_allocation" }

\* The type codes of the inputs: two types with a body decoder, the three
\* whose decoder is a stub, one outside the known set, and the terminator.
TypeCodes ==
    { "STANDARD_INFORMATION", "FILE_NAME", "DATA", "INDEX_ROOT",
      "INDEX_ALLOCATION", "UNKNOWN", "END_OF_ATTRIBUTES" }

\* str.lower() on the type code names.
Lower(t) ==
    CASE t = "STANDARD_INFORMATION" -> "standard_information"
      [] t = "FILE_NAME" -> "file_name"
      [] t = "DATA" -> "data"
      [] t = "INDEX_ROOT" -> "index_root"
      [] t = "INDEX_ALLOCATION" -> "index_allocation"
      [] t = "UNKNOWN" -> "unknown"
      [] t = "END_OF_ATTRIBUTES" -> "end_of_attributes"

(***************************************************************************)
(* Input domains.                                                          *)
(***************************************************************************)
\* Buffer lengths: too short for the entry header, long enough for the header
\* and one attribute, and the full record.
BufferLengths == { 40, 160, MFT_RECORD_SIZE }
\* With records of 96 bytes the scan started at 56 stays far from the end of
\* the record; started at 928 it reaches the end after one attribute; at 1016
\* only a type code is left to read.
FirstAttributeOffsets == { 56, 928, 1016 }
UsedSizes == { 300, MFT_RECORD_SIZE, 4096 }
RawSignatures == { FILE_MAGIC }
\* The magic the other buffer may hold: FILE, BAAD, or neither.
OtherSignatures == { FILE_MAGIC, BAAD_MAGIC, 0 }
RecordLengths == { 0, 96 }
FormCodes == { 0, 1 }
\* What the body bytes of an attribute hold: two decodable contents and one
\* that no body decoder accepts (a truncated or overwritten body).
BodyContents == { "b1", "b2", "bad" }
BaseBodyContents == { "b1", "bad" }
\* The offsets at which the other buffer may differ from the first one.
CorruptibleOffsets == { 56, 152 }
NoOffset == 0 - 1

\* The attribute records a buffer may hold at one offset.  Fields that the
\* decoder never reads for a record are fixed, so that two records that
\* differ are records the decoder can tell apart.
AttributeRecords ==
    { [TypeCode |-> "END_OF_ATTRIBUTES", RecordLength |-> 0, FormCode |-> 0,
       Body |-> "bad"] }
    \cup
    { [TypeCode |-> t, RecordLength |-> l, FormCode |-> 0, Body |-> b] :
        t \in {"STANDARD_INFORMATION", "FILE_NAME"}, l \in RecordLengths,
        b \in BaseBodyContents }
    \cup
    { [TypeCode |-> "STANDARD_INFORMATION", RecordLength |-> l, FormCode |-> 1,
       Body |-> "bad"] : l \in RecordLengths }
    \cup
    { [TypeCode |-> "DATA", RecordLength |-> l, FormCode |-> 0,
       Body |-> "bad"] : l \in RecordLengths }
    \cup
    { [TypeCode |-> t, RecordLength |-> 96, FormCode |-> 0, Body |-> "bad"] :
        t \in {"INDEX_ROOT", "INDEX_ALLOCATION", "UNKNOWN"} }

VARIABLES
    raw_entry,   \* the first buffer: its length and entry header fields
    attrs,       \* offset -> attribute record, for the offsets read so far
    corrupt,     \* where and how the buffer of object 2 differs
    pc,          \* per object: "none", "new", "scan", "done", "raised"
    entry,       \* per object: the MFTEntry container (header and lists)
    stream,      \* per object: None, or the position of self._stream
    iterations,  \* per object: scan iterations taken by the current parse()
    last,        \* per object: the last _parse_next_attribute call
    origin,      \* per object and key: the offsets the list elements came from
    ser,         \* per object: what serialize() gave
    first,       \* per object: None, or the entry when parse() was called again
    call,        \* a body decoder called on its own: the decoder and its input
    al,          \* _parse_attribute_list: stream position, entries, iterations
    ret,         \* what the body decoder returned
    run,         \* BaseParseFileOutputDirective.run: its arguments and locals
    worker_pool, \* the tasks handed to worker_pool.add_task, in order
    protocol     \* the calls run() made on the worker pool, in order

engine_vars ==
    <<raw_entry, attrs, corrupt, pc, entry, stream, iterations, last, origin,
      ser, first>>

body_vars == <<call, al, ret>>

run_vars == <<run, worker_pool, protocol>>

vars == <<engine_vars, body_vars, run_vars>>

\* Two MFTEntry objects: object 1 is constructed over the first buffer,
\* object 2 over the second one (the same bytes, or the bytes of the first
\* with the body of one attribute replaced).
Objects == { 1, 2 }

(***************************************************************************)
(* The buffers.                                                            *)
(***************************************************************************)
\* The body bytes object e finds for the attribute record d at offset p.
BodyBytes(e, p, d) ==
    IF e = 2 /\ corrupt.at = p THEN corrupt.to ELSE d.Body

\* The records that offset p may turn out to hold when it is first read.
Drawable(p) ==
    IF p \in DOMAIN attrs THEN { attrs[p] } ELSE AttributeRecords

\* The ways the second buffer may differ from the first: not at all, in
\* the 4-byte magic, or in the body bytes of one resident attribute, which
\* then hold something else.  Two decodes that run interleaved are decodes
\* of the same bytes; buffers that differ are decoded one after the other.
Corruptions ==
    { [ at |-> NoOffset, to |-> "bad", magic |-> m ] :
        m \in IF pc[1] = "new" THEN { raw_entry.RawSignature }
              ELSE OtherSignatures }
    \cup
    { c \in [ at : CorruptibleOffsets \cap DOMAIN attrs, to : BodyContents,
              magic : { raw_entry.RawSignature } ] :
        /\ attrs[c.at].TypeCode \in { "STANDARD_INFORMATION", "FILE_NAME" }
        /\ attrs[c.at].FormCode = 0
        /\ attrs[c.at].Body # c.to }

\* The entry header fields and the length of the buffer of object e.
RawEntry(e) ==
    IF e = 2 THEN [ raw_entry EXCEPT !.RawSignature = corrupt.magic ]
    ELSE raw_entry

\* The two buffers hold the same bytes.
SameBuffer == corrupt.at = NoOffset /\ corrupt.magic = raw_entry.RawSignature

(***************************************************************************)
(* Structure parsers.                                                      *)
(***************************************************************************)
\* construct raises when the stream holds fewer bytes than the structure.
Readable(len, p, size) == p + size <= len

\* _parse_entry_header: the signature is classified from the raw magic and
\* _clean_transform drops the Raw field.
parse_entry_header(raw) ==
    [ FirstAttributeOffset |-> raw.FirstAttributeOffset,
      UsedSize |-> raw.UsedSize,
      Signature |-> IF raw.RawSignature = FILE_MAGIC THEN "FILE"
                    ELSE IF raw.RawSignature = BAAD_MAGIC THEN "BAAD"
                    ELSE "CRPT" ]

\* A variant that does not notice the short read of the header.
parse_structure_entry_header_unchecked(raw) == Some(parse_entry_header(raw))

\* A variant for which a magic that is neither FILE nor BAAD is fatal.
parse_structure_entry_header_strict(raw) ==
    IF Readable(raw.len, 0, EntryHeaderSize)
       /\ raw.RawSignature \in { FILE_MAGIC, BAAD_MAGIC }
    THEN Some(parse_entry_header(raw))
    ELSE None

\* parse_structure('entry_header'): None when the parser raised.
parse_structure_entry_header(raw) ==
    IF Readable(raw.len, 0, EntryHeaderSize)
    THEN Some(parse_entry_header(raw))
    ELSE None

\* MFTAttributeHeader.sizeof() for the form of record d.
AttributeHeaderSize(d) ==
    AttributeHeaderFixedSize + (IF d.FormCode = 0 THEN ResidentFormSize ELSE 0)

\* _parse_attribute_header: the decoded header of record d.
parse_attribute_header(d) ==
    [ TypeCode |-> d.TypeCode, RecordLength |-> d.RecordLength,
      FormCode |-> d.FormCode ]

\* parse_structure('attribute_header') at offset p.
parse_structure_attribute_header(len, p, d) ==
    IF Readable(len, p, AttributeHeaderSize(d))
    THEN Some(parse_attribute_header(d))
    ELSE None

\* A variant in which every type has a decoder that returns the bytes.
parse_structure_body_any(t, content) == Some([ Decoded |-> content ])

\* parse_structure(type_code.lower(), header): the body decoders.  A type
\* without a _parse_ method and the stub decoders give None; a decoder that
\* raises is caught by parse_structure, which gives None as well.
parse_structure_body(t, content) ==
    IF Lower(t) \in { "standard_information", "file_name" } /\ content # "bad"
    THEN Some([ Decoded |-> content ])
    ELSE None

\* What became of the body, for the log.
BodyOutcome(t, content) ==
    IF Lower(t) \notin AttributeKeys THEN "unknown_type"
    ELSE IF Lower(t) \notin { "standard_information", "file_name" } THEN "stub"
    ELSE IF content = "bad" THEN "body_failed"
    ELSE "body_decoded"

\* A variant without the finally clause: after a body that failed to decode
\* the stream stays where the attribute header ended.
finally_seek_on_success(p, header, outcome) ==
    IF outcome = "body_failed"
    THEN p + AttributeHeaderFixedSize + ResidentFormSize
    ELSE p + header.RecordLength

\* The finally clause of _parse_next_attribute: whatever became of the body,
\* the stream is left at the start of the attribute plus its RecordLength.
finally_seek(p, header, outcome) == p + header.RecordLength

\* parse_structure('next_attribute') with the stream at offset p, which
\* holds record d with body bytes content.  raised: _parse_next_attribute
\* raised and parse_structure returned None instead of a pair.  pos: the
\* stream position afterwards.
parse_next_attribute(len, p, d, content) ==
    IF ~Readable(len, p, TypeCodeSize)
    THEN [ raised |-> TRUE, type |-> None, data |-> None, pos |-> p,
           outcome |-> "type_code_unreadable" ]
    ELSE IF d.TypeCode = "END_OF_ATTRIBUTES"
    THEN [ raised |-> FALSE, type |-> None, data |-> None,
           pos |-> p + TypeCodeSize, outcome |-> "end" ]
    ELSE LET header == parse_structure_attribute_header(len, p, d) IN
    IF header = None
    THEN \* header.FormCode, header.TypeCode and header.RecordLength all
         \* raise AttributeError: the try, its except and its finally.
         [ raised |-> TRUE, type |-> None, data |-> None, pos |-> p,
           outcome |-> "header_unreadable" ]
    ELSE IF header[1].FormCode # 0
    THEN [ raised |-> FALSE, type |-> Some(header[1].TypeCode), data |-> None,
           pos |-> finally_seek(p, header[1], "non_resident"),
           outcome |-> "non_resident" ]
    ELSE [ raised |-> FALSE, type |-> Some(header[1].TypeCode),
           data |-> Some([ header |-> header[1],
                           body |-> parse_structure_body(d.TypeCode, content) ]),
           pos |-> finally_seek(p, header[1], BodyOutcome(d.TypeCode, content)),
           outcome |-> BodyOutcome(d.TypeCode, content) ]

(***************************************************************************)
(* MFTEntry.                                                               *)
(***************************************************************************)
\* A variant of __init__ whose lists are shared by all objects (lists held
\* by the class instead of the instance).
MFTEntry_init_shared ==
    [ header |-> None,
      lists |-> IF pc[1] # "none" THEN entry[1].lists
                ELSE [ k \in AttributeKeys |-> <<>> ] ]

\* MFTEntry.__init__: one empty list per attribute key; no header yet.
MFTEntry_init ==
    [ header |-> None, lists |-> [ k \in AttributeKeys |-> <<>> ] ]

NoCall == [ start |-> NoOffset, outcome |-> "none" ]

\* serialize() has not been called.
NoResult == [ state |-> "none", keys |-> {} ]

\* The attributes __init__ and parse() set with self.name = value: the
\* container keeps them as keys, next to the attribute lists.
PrivateKeys == { "_raw_entry", "_stream" }

\* The keys of the MFTEntry container of object e.
EntryKeys(e) ==
    AttributeKeys \cup PrivateKeys
    \cup (IF pc[e] \in { "none", "new" } THEN {} ELSE { "header" })

\* The keys that begin with '_' or 'Raw'.
Hidden(keys) == keys \cap (PrivateKeys \cup { "_filepath" })

\* _clean_transform on a container with the given keys.  With '_raw_entry'
\* among them '_filepath' is deleted, which raises KeyError when the copy
\* holds no such key; otherwise '_stream' and the other hidden keys go.
clean_transform(keys) ==
    IF "_raw_entry" \in keys /\ "_filepath" \notin keys
    THEN [ state |-> "raised", keys |-> {} ]
    ELSE [ state |-> "returned", keys |-> keys \ Hidden(keys) ]

\* parse() on object e has ended, or the scan would go on and the model
\* follows it no further.
Ended(e) ==
    \/ pc[e] \in { "done", "raised" }
    \/ /\ pc[e] = "scan"
       /\ iterations[e] = MaxIter
       /\ stream[e][1] < entry[e].header[1].UsedSize

\* The object is not inside a parse() call.
AtRest(e) == pc[e] \in { "none", "new" } \/ Ended(e)

\* No body decoder is called on its own.
BodyIdle ==
    /\ call = [ fn |-> "none" ]
    /\ al = [ tell |-> 0, attributes |-> [ k \in {} |-> <<>> ], n |-> 0 ]
    /\ ret = [ state |-> "none", value |-> None ]

\* run() has not been called.
RunIdle ==
    /\ run = [ pc |-> "none" ]
    /\ worker_pool = <<>>
    /\ protocol = <<>>

\* No MFTEntry object exists yet.
EngineIdle ==
    /\ attrs = << >>
    /\ corrupt = [ at |-> NoOffset, to |-> "bad", magic |-> FILE_MAGIC ]
    /\ pc = [ e \in Objects |-> "none" ]
    /\ entry = [ e \in Objects |-> MFTEntry_init ]
    /\ stream = [ e \in Objects |-> None ]
    /\ iterations = [ e \in Objects |-> 0 ]
    /\ last = [ e \in Objects |-> NoCall ]
    /\ origin = [ e \in Objects |-> [ k \in AttributeKeys |-> <<>> ] ]
    /\ ser = [ e \in Objects |-> NoResult ]
    /\ first = [ e \in Objects |-> None ]

Init ==
    /\ raw_entry \in [ len : BufferLengths,
                        FirstAttributeOffset : FirstAttributeOffsets,
                        UsedSize : UsedSizes,
                        RawSignature : RawSignatures ]
    /\ EngineIdle
    /\ BodyIdle
    /\ RunIdle

\* MFTEntry(raw_entry): the tasks construct one object per decode.  The
\* decodes are run one after the other, object 2 over a buffer that is the
\* first one or differs from it in one attribute body.
Construct(e) ==
    /\ pc[e] = "none"
    /\ \A o \in Objects \ {e} : IF o < e THEN AtRest(o) /\ pc[o] # "none"
                                  ELSE pc[o] = "none"
    /\ pc' = [ pc EXCEPT ![e] = "new" ]
    /\ entry' = [ entry EXCEPT ![e] = MFTEntry_init ]
    /\ stream' = [ stream EXCEPT ![e] = None ]
    /\ IF e = 2 THEN corrupt' \in Corruptions ELSE corrupt' = corrupt
    /\ origin' = [ origin EXCEPT ![e] = [ k \in AttributeKeys |-> <<>> ] ]
    /\ UNCHANGED <<raw_entry, attrs, iterations, last, ser, first, body_vars, run_vars>>

\* parse() up to the scan loop: get_stream, the entry header, the seek to
\* the first attribute.  A header of None makes header.FirstAttributeOffset
\* raise; the finally clause closes the stream.
ParseBegin(e) ==
    /\ pc[e] = "new"
    /\ LET header == parse_structure_entry_header(RawEntry(e)) IN
        /\ entry' = [ entry EXCEPT ![e].header = header ]
        /\ IF header = None
           THEN /\ pc' = [ pc EXCEPT ![e] = "raised" ]
                /\ stream' = [ stream EXCEPT ![e] = None ]
           ELSE /\ pc' = [ pc EXCEPT ![e] = "scan" ]
                /\ stream' = [ stream EXCEPT
                                 ![e] = Some(header[1].FirstAttributeOffset) ]
    /\ iterations' = [ iterations EXCEPT ![e] = 0 ]
    /\ last' = [ last EXCEPT ![e] = NoCall ]
    /\ UNCHANGED <<raw_entry, attrs, corrupt, origin, ser, first, body_vars, run_vars>>

\* A variant that records the newest attribute first.
Accumulate_prepend(lists, r) ==
    IF r.raised \/ r.type = None THEN lists
    ELSE IF Lower(r.type[1]) \notin AttributeKeys THEN lists
    ELSE IF r.data # None
    THEN [ lists EXCEPT ![Lower(r.type[1])] = <<r.data[1]>> \o @ ]
    ELSE lists

\* A variant that records an attribute that came without data as well.
Accumulate_without_data(lists, r) ==
    IF r.raised \/ r.type = None THEN lists
    ELSE IF Lower(r.type[1]) \notin AttributeKeys THEN lists
    ELSE IF r.data # None
    THEN [ lists EXCEPT ![Lower(r.type[1])] = Append(@, r.data[1]) ]
    ELSE [ lists EXCEPT ![Lower(r.type[1])] =
             Append(@, [ header |-> None, body |-> None ]) ]

\* A variant that records an attribute only when its body was decoded.
Accumulate_decoded_only(lists, r) ==
    IF r.raised \/ r.type = None THEN lists
    ELSE IF Lower(r.type[1]) \notin AttributeKeys THEN lists
    ELSE IF r.data # None /\ r.data[1].body # None
    THEN [ lists EXCEPT ![Lower(r.type[1])] = Append(@, r.data[1]) ]
    ELSE lists

\* The lists after one pass through the body of the scan loop, given what
\* parse_structure('next_attribute') returned.
Accumulate(lists, r) ==
    IF r.raised \/ r.type = None THEN lists
    ELSE IF Lower(r.type[1]) \notin AttributeKeys THEN lists
    ELSE IF r.data # None
    THEN [ lists EXCEPT ![Lower(r.type[1])] = Append(@, r.data[1]) ]
    ELSE lists

\* One iteration of the scan loop of parse(), entered with the stream
\* below UsedSize.  parse_structure gives None when _parse_next_attribute
\* raised, and unpacking None raises out of parse(); a type of None breaks
\* the loop and parse() returns.
ParseIteration(e) ==
    /\ pc[e] = "scan"
    /\ iterations[e] < MaxIter
    /\ stream[e][1] < entry[e].header[1].UsedSize
    /\ LET p == stream[e][1] IN
       \E d \in Drawable(p) :
        LET r == parse_next_attribute(raw_entry.len, p, d, BodyBytes(e, p, d)) IN
        /\ attrs' = IF Readable(raw_entry.len, p, TypeCodeSize)
                    THEN (p :> d) @@ attrs ELSE attrs
        /\ last' = [ last EXCEPT ![e] = [ start |-> p, outcome |-> r.outcome ] ]
        /\ entry' = [ entry EXCEPT ![e].lists = Accumulate(@, r) ]
        /\ origin' = [ origin EXCEPT ![e] =
                         [ k \in AttributeKeys |->
                             IF Len(entry'[e].lists[k]) > Len(entry[e].lists[k])
                             THEN Append(@[k], p) ELSE @[k] ] ]
        /\ IF r.raised
           THEN /\ pc' = [ pc EXCEPT ![e] = "raised" ]
                /\ stream' = [ stream EXCEPT ![e] = None ]
           ELSE IF r.type = None
           THEN /\ pc' = [ pc EXCEPT ![e] = "done" ]
                /\ stream' = [ stream EXCEPT ![e] = None ]
           ELSE /\ pc' = pc
                /\ stream' = [ stream EXCEPT ![e] = Some(r.pos) ]
    /\ iterations' = [ iterations EXCEPT ![e] = @ + 1 ]
    /\ UNCHANGED <<raw_entry, corrupt, ser, first, body_vars, run_vars>>

\* The loop condition fails: parse() returns self and closes the stream.
ParseReturn(e) ==
    /\ pc[e] = "scan"
    /\ stream[e][1] >= entry[e].header[1].UsedSize
    /\ pc' = [ pc EXCEPT ![e] = "done" ]
    /\ stream' = [ stream EXCEPT ![e] = None ]
    /\ UNCHANGED <<raw_entry, attrs, corrupt, entry, iterations, last, origin,
                   ser, first, body_vars, run_vars>>

\* serialize() on an object whose parse() has returned.
Serialize(e) ==
    /\ pc[e] = "done"
    /\ ser[e] = NoResult
    /\ ser' = [ ser EXCEPT ![e] = clean_transform(EntryKeys(e)) ]
    /\ UNCHANGED <<raw_entry, attrs, corrupt, pc, entry, stream, iterations,
                   last, origin, first, body_vars, run_vars>>

\* parse() called again on an object whose parse() has returned: the same
\* steps as the first call, on the lists the object already holds.
ParseAgain(e) ==
    /\ pc[e] = "done"
    /\ first[e] = None
    /\ first' = [ first EXCEPT ![e] = Some(entry[e]) ]
    /\ LET header == parse_structure_entry_header(RawEntry(e)) IN
        /\ entry' = [ entry EXCEPT ![e].header = header ]
        /\ IF header = None
           THEN /\ pc' = [ pc EXCEPT ![e] = "raised" ]
                /\ stream' = [ stream EXCEPT ![e] = None ]
           ELSE /\ pc' = [ pc EXCEPT ![e] = "scan" ]
                /\ stream' = [ stream EXCEPT
                                 ![e] = Some(header[1].FirstAttributeOffset) ]
    /\ iterations' = [ iterations EXCEPT ![e] = 0 ]
    /\ last' = [ last EXCEPT ![e] = NoCall ]
    /\ UNCHANGED <<raw_entry, attrs, corrupt, origin, ser, body_vars, run_vars>>

Next ==
    \E e \in Objects :
        \/ Construct(e)
        \/ ParseBegin(e)
        \/ ParseIteration(e)
        \/ ParseReturn(e)
        \/ Serialize(e)

Spec == Init /\ [][Next]_vars

\* One object whose parse() is called a second time.
NextAgain ==
    \/ Construct(1)
    \/ ParseBegin(1)
    \/ ParseIteration(1)
    \/ ParseReturn(1)
    \/ ParseAgain(1)

SpecAgain == Init /\ [][NextAgain]_vars

(***************************************************************************)
(* The body decoders of SECURITY_DESCRIPTOR and ATTRIBUTE_LIST, each called *)
(* with the stream at the start of the attribute value.  The structures    *)
(* they read (src.structures.mft) follow the NTFS layouts.                 *)
(***************************************************************************)
\* MFTSecurityDescriptorHeader: revision(1) pad(1) control(2) and the four
\* 32-bit offsets.
SecurityDescriptorHeaderSize == 20
\* NTFSSID: revision(1) sub-authority count(1) identifier authority(6),
\* then 4 bytes per sub-authority.
SIDFixedSize == 8
SubAuthoritySize == 4
\* MFTACLHeader: revision(1) pad(1) AclSize(2) AceCount(2) pad(2).
ACLHeaderSize == 8
\* MFTACEHeader: type(1) flags(1) AceSize(2).
ACEHeaderSize == 4
\* MFTAttributeListEntry: type(4) record_length(2) name_length(1)
\* name_offset(1) starting_vcn(8) base_record(8) attribute_id(2).
AttributeListEntrySize == 26
\* Entries an ATTRIBUTE_LIST input holds before its terminator.
MaxEntries == 3
\* Iterations of the loop of _parse_attribute_list that are followed.
MaxListIter == 4

\* NTFSSID.parse_stream at offset q, the SID there having n sub-authorities.
parse_sid(len, q, n) ==
    IF Readable(len, q, SIDFixedSize + SubAuthoritySize * n)
    THEN [ raised |-> FALSE, value |-> Some([ SubAuthorityCount |-> n ]) ]
    ELSE [ raised |-> TRUE, value |-> None ]

\* The walk over the ACE headers of an ACL body: each header is read at the
\* current position and the walk goes on at that position plus AceSize.
RECURSIVE ace_walk(_, _, _, _, _, _)
ace_walk(len, acl_position, acl_size, tell, aces, body) ==
    IF ~(tell - acl_position < acl_size) \/ aces = <<>> THEN body
    ELSE IF ~Readable(len, tell, ACEHeaderSize) THEN body
    ELSE ace_walk(len, acl_position, acl_size, tell + Head(aces), Tail(aces),
                  Append(body, [ header |-> [ AceSize |-> Head(aces) ],
                                 body |-> None ]))

\* A variant that lets the failure to read the ACL header reach the caller.
parse_access_control_list_raising(len, q, acl) ==
    IF ~Readable(len, q, ACLHeaderSize)
    THEN [ raised |-> TRUE, value |-> None ]
    ELSE [ raised |-> FALSE, value |-> None ]

\* _parse_access_control_list at offset q.  The header is stored under the
\* key 'header' and then looked up as acl.Header, a key the container does
\* not hold: the AttributeError is caught by the outer except, as is a
\* failure to read the header, and the function returns None.
parse_access_control_list(len, q, acl) ==
    IF ~Readable(len, q, ACLHeaderSize)
    THEN [ raised |-> FALSE, value |-> None ]
    ELSE IF "Header" \notin { "header" }
    THEN [ raised |-> FALSE, value |-> None ]
    ELSE [ raised |-> FALSE,
           value |-> Some([ header |-> [ AclSize |-> acl.AclSize ],
                            body |-> ace_walk(len, q + ACLHeaderSize,
                                              acl.AclSize - ACLHeaderSize,
                                              q + ACLHeaderSize, acl.aces,
                                              <<>>) ]) ]

\* _parse_security_descriptor with the stream at header_position.  A raise
\* of the header or of a SID parser is a raise of the decoder.
parse_security_descriptor(c) ==
    LET hp == c.header_position
        owner == parse_sid(c.len, hp + c.OwnerSIDOffset, c.OwnerSubAuthorities)
        group == parse_sid(c.len, hp + c.GroupSIDOffset, c.GroupSubAuthorities)
        sacl == parse_access_control_list(c.len, hp + c.SACLOffset, c.acl)
        dacl == parse_access_control_list(c.len, hp + c.DACLOffset, c.acl)
    IN
    IF ~Readable(c.len, hp, SecurityDescriptorHeaderSize)
       \/ owner.raised \/ group.raised \/ sacl.raised \/ dacl.raised
    THEN [ state |-> "raised", value |-> None ]
    ELSE [ state |-> "returned",
           value |-> Some([ OwnerSID |-> owner.value, GroupSID |-> group.value,
                            SACL |-> sacl.value, DACL |-> dacl.value ]) ]

\* The inputs of _parse_security_descriptor.
SecurityDescriptorCalls ==
    [ fn : { "security_descriptor" },
      len : { 160, MFT_RECORD_SIZE },
      header_position : { 80, 1000 },
      OwnerSIDOffset : { 20, 2000 },
      GroupSIDOffset : { 20, 32, 2000 },
      SACLOffset : { 0, 48, 2000 },
      DACLOffset : { 0, 48, 2000 },
      OwnerSubAuthorities : { 1, 5 },
      GroupSubAuthorities : { 1 },
      acl : { [ AclSize |-> 28, aces |-> <<20>> ] } ]

\* The entries an ATTRIBUTE_LIST value may hold.  NameOk: the name bytes
\* are valid UTF-16.
AttributeListEntries ==
    { [ AttributeTypeCode |-> "END_OF_ATTRIBUTES", RecordLength |-> 0,
        AttributeNameOffset |-> 0, AttributeNameLength |-> 0, NameOk |-> TRUE ] }
    \cup
    { [ AttributeTypeCode |-> "FILE_NAME", RecordLength |-> l,
        AttributeNameOffset |-> AttributeListEntrySize,
        AttributeNameLength |-> 0, NameOk |-> TRUE ] : l \in { 0, 40 } }
    \cup
    { [ AttributeTypeCode |-> "FILE_NAME", RecordLength |-> l,
        AttributeNameOffset |-> AttributeListEntrySize,
        AttributeNameLength |-> n, NameOk |-> ok ] :
        l \in { 0, 40 }, n \in { 4, 200 }, ok \in BOOLEAN }

\* The inputs of _parse_attribute_list: the stream position at the call
\* (the start of the value), the ValueLength of the attribute header, and
\* the entries the stream holds back to back from there, followed by an
\* entry of type END_OF_ATTRIBUTES.
AttributeListCalls ==
    [ fn : { "attribute_list" },
      len : { MFT_RECORD_SIZE },
      start : { 80, 176 },
      ValueLength : { 120, 400 },
      entries : [ 1..MaxEntries -> AttributeListEntries ] ]

\* The start of entry i of the value, relative to the start of the value.
RECURSIVE EntryOffset(_, _)
EntryOffset(entries, i) ==
    IF i = 1 THEN 0
    ELSE EntryOffset(entries, i - 1) + entries[i - 1].RecordLength

\* The entry the stream holds at position tell: entry i of the value when
\* tell is its start, and the terminator behind the entries.
EntryAt(c, tell) ==
    LET here == { i \in 1..MaxEntries :
                    c.start + EntryOffset(c.entries, i) = tell } IN
    IF here # {}
    THEN c.entries[CHOOSE i \in here : \A j \in here : i <= j]
    ELSE [ AttributeTypeCode |-> "END_OF_ATTRIBUTES", RecordLength |-> 0,
           AttributeNameOffset |-> 0, AttributeNameLength |-> 0,
           NameOk |-> TRUE ]

\* The inputs of _parse_attribute_header: the buffer, the start of the
\* attribute, and the name fields of its header.  NameOk: the name bytes
\* are valid UTF-16.
AttributeHeaderCalls ==
    [ fn : { "attribute_header" },
      len : { 160, MFT_RECORD_SIZE },
      original_position : { 56, 152 },
      d : { [ TypeCode |-> "FILE_NAME", RecordLength |-> 96, FormCode |-> f,
              Body |-> "b1" ] : f \in FormCodes },
      NameLength : { 0, 4 },
      NameOffset : { 24, 2000 },
      NameOk : BOOLEAN ]

\* NameLength * 2. is a float whatever NameLength is.
name_size_is_float(NameLength) == NameLength \in Nat

\* stream.read(size) of a BytesIO: a size that is not an integer raises
\* TypeError; otherwise the bytes up to the end of the buffer are returned.
stream_read(len, q, size, is_float) ==
    IF is_float THEN [ raised |-> TRUE, n |-> 0 ]
    ELSE [ raised |-> FALSE, n |-> IF q >= len THEN 0
                                   ELSE IF len - q < size THEN len - q
                                   ELSE size ]

\* The Name that _parse_attribute_header gives the header: the decoded
\* bytes, or None when NameLength is 0 or the seek, the read or the decode
\* raised.
attribute_header_name(c) ==
    IF c.NameLength > 0
    THEN LET r == stream_read(c.len, c.original_position + c.NameOffset,
                              c.NameLength * 2,
                              name_size_is_float(c.NameLength)) IN
         IF r.raised \/ (r.n > 0 /\ ~c.NameOk) THEN None
         ELSE Some([ units |-> r.n \div 2 ])
    ELSE None

InitBody ==
    /\ raw_entry = [ len |-> MFT_RECORD_SIZE, FirstAttributeOffset |-> 56,
                     UsedSize |-> MFT_RECORD_SIZE, RawSignature |-> FILE_MAGIC ]
    /\ EngineIdle
    /\ call \in SecurityDescriptorCalls \cup AttributeListCalls
                \cup AttributeHeaderCalls
    /\ al = [ tell |-> IF call.fn = "attribute_list" THEN call.start ELSE 0,
              attributes |-> [ k \in {} |-> <<>> ], n |-> 0 ]
    /\ ret = [ state |-> "none", value |-> None ]
    /\ RunIdle

\* _parse_security_descriptor, from call to return.
SecurityDescriptor ==
    /\ call.fn = "security_descriptor"
    /\ ret.state = "none"
    /\ ret' = parse_security_descriptor(call)
    /\ UNCHANGED <<engine_vars, call, al, run_vars>>

\* attributes[key].append(entry), the list of the key being created when
\* the key is new.
attributes_append(attributes, key, x) ==
    IF key \in DOMAIN attributes
    THEN [ attributes EXCEPT ![key] = Append(@, x) ]
    ELSE [ k \in DOMAIN attributes \cup { key } |->
             IF k = key THEN << x >> ELSE attributes[k] ]

\* The loop condition of _parse_attribute_list.
attribute_list_continues(tell, ValueLength) == tell < ValueLength

\* One iteration of the loop of _parse_attribute_list.  A failure to read
\* the entry or to decode its name, and the END_OF_ATTRIBUTES type code,
\* break the loop; otherwise the entry is appended to the list of its type
\* and the stream is moved to the start of the entry plus its RecordLength.
AttributeListIteration ==
    /\ call.fn = "attribute_list"
    /\ ret.state = "none"
    /\ al.n < MaxListIter
    /\ attribute_list_continues(al.tell, call.ValueLength)
    /\ LET e == EntryAt(call, al.tell) IN
       IF \/ ~Readable(call.len, al.tell, AttributeListEntrySize)
          \/ e.AttributeTypeCode = "END_OF_ATTRIBUTES"
          \/ ~e.NameOk
       THEN /\ ret' = [ state |-> "returned", value |-> Some(al.attributes) ]
            /\ al' = [ al EXCEPT !.n = @ + 1 ]
       ELSE /\ al' = [ tell |-> al.tell + e.RecordLength,
                       attributes |->
                           attributes_append(
                               al.attributes, Lower(e.AttributeTypeCode),
                               [ AttributeTypeCode |-> e.AttributeTypeCode,
                                 RecordLength |-> e.RecordLength,
                                 AttributeNameLength |-> e.AttributeNameLength,
                                 at |-> al.tell ]),
                       n |-> al.n + 1 ]
            /\ ret' = ret
    /\ UNCHANGED <<engine_vars, call, run_vars>>

\* The loop condition fails: the entries collected are returned.
AttributeListReturn ==
    /\ call.fn = "attribute_list"
    /\ ret.state = "none"
    /\ ~attribute_list_continues(al.tell, call.ValueLength)
    /\ ret' = [ state |-> "returned", value |-> Some(al.attributes) ]
    /\ UNCHANGED <<engine_vars, call, al, run_vars>>

\* _parse_attribute_header, from call to return.
AttributeHeader ==
    /\ call.fn = "attribute_header"
    /\ ret.state = "none"
    /\ ret' = IF Readable(call.len, call.original_position,
                          AttributeHeaderSize(call.d))
              THEN [ state |-> "returned",
                     value |-> Some([ header |-> parse_attribute_header(call.d),
                                      Name |-> attribute_header_name(call) ]) ]
              ELSE [ state |-> "raised", value |-> None ]
    /\ UNCHANGED <<engine_vars, call, al, run_vars>>

NextBody ==
    \/ AttributeHeader
    \/ SecurityDescriptor
    \/ AttributeListIteration
    \/ AttributeListReturn

SpecBody == InitBody /\ [][NextBody]_vars

(***************************************************************************)
(* BaseParseFileOutputDirective.run: the loop that cuts the source files   *)
(* into records and hands them to the worker pool.                         *)
(***************************************************************************)
\* The largest args.count followed.
MaxCount == 3
\* The sizes of the source files: empty, one record, one record and a
\* partial one, two records.
FileSizes == { 0, MFT_RECORD_SIZE, 1500, 2048 }
\* The frontier: the source files in order.
Frontiers == { <<>> } \cup { << a >> : a \in FileSizes }
             \cup { << a, b >> : a \in FileSizes, b \in { MFT_RECORD_SIZE } }

\* file.read(n) on a file of the given size at position pos: the number of
\* bytes returned.
file_read(size, pos, n) == IF size - pos < n THEN size - pos ELSE n

\* mft_record != '' for a record read from a file opened in mode 'rb': the
\* record is a bytes object, which never equals a str, the empty ones
\* included.
record_ne_empty_str(mft_record) == mft_record \in Nat

\* A call made on the worker pool while node nodeidx is the current one.
PoolCall(op) == [ op |-> op, nodeidx |-> run.nodeidx ]

\* The calls that follow the loop over the nodes, in the order of the code.
AfterShutdownStep(op) ==
    CASE op = "add_poison_pills" -> "join_workers"
      [] op = "join_workers" -> "terminate"
      [] op = "terminate" -> "coalesce_files"
      [] op = "coalesce_files" -> "returned"

ShutdownSteps ==
    { "add_poison_pills", "join_workers", "terminate", "coalesce_files" }

InitRun ==
    /\ raw_entry = [ len |-> MFT_RECORD_SIZE, FirstAttributeOffset |-> 56,
                     UsedSize |-> MFT_RECORD_SIZE, RawSignature |-> FILE_MAGIC ]
    /\ EngineIdle
    /\ BodyIdle
    /\ run \in [ pc : { "called" }, frontier : Frontiers, count : 0..MaxCount,
                  nodeidx : { 0 }, tell : { 0 }, mft_record : { 0 },
                  recordidx : { 0 }, record_count : { 0 } ]
    /\ worker_pool = <<>>
    /\ protocol = <<>>

\* The guard of run(): with no source or a count of 0 nothing is started;
\* otherwise the pool is started and the loop over the nodes begins.
RunStart ==
    /\ run.pc = "called"
    /\ run' = [ run EXCEPT !.pc = IF Len(run.frontier) > 0 /\ run.count > 0
                                  THEN "next_node" ELSE "returned" ]
    /\ protocol' = IF Len(run.frontier) > 0 /\ run.count > 0
                   THEN Append(protocol, PoolCall("start")) ELSE protocol
    /\ UNCHANGED <<engine_vars, body_vars, worker_pool>>

\* The for statement: the next node is opened and its first record read,
\* or the nodes are exhausted.
RunNextNode ==
    /\ run.pc = "next_node"
    /\ IF run.nodeidx < Len(run.frontier)
       THEN run' = [ run EXCEPT
                       !.pc = "while",
                       !.recordidx = 0,
                       !.mft_record = file_read(run.frontier[run.nodeidx + 1],
                                                0, MFT_RECORD_SIZE),
                       !.tell = file_read(run.frontier[run.nodeidx + 1],
                                          0, MFT_RECORD_SIZE) ]
       ELSE run' = [ run EXCEPT !.pc = "add_poison_pills" ]
    /\ UNCHANGED <<engine_vars, body_vars, worker_pool, protocol>>

\* The body of the while loop: the record is handed to the pool and the
\* next one is read.
RunAddTask ==
    /\ run.pc = "while"
    /\ record_ne_empty_str(run.mft_record)
    /\ run.record_count < run.count
    /\ worker_pool' = Append(worker_pool,
                             [ nodeidx |-> run.nodeidx,
                               recordidx |-> run.recordidx,
                               mft_record |-> run.mft_record ])
    /\ LET n == file_read(run.frontier[run.nodeidx + 1], run.tell,
                          MFT_RECORD_SIZE) IN
       run' = [ run EXCEPT !.mft_record = n,
                           !.tell = @ + n,
                           !.recordidx = @ + 1,
                           !.record_count = @ + 1 ]
    /\ protocol' = Append(protocol, PoolCall("add_task"))
    /\ UNCHANGED <<engine_vars, body_vars>>

\* A variant that leaves a node without joining its tasks.
RunNodeDone_without_join ==
    /\ run.pc = "while"
    /\ ~(record_ne_empty_str(run.mft_record) /\ run.record_count < run.count)
    /\ run' = [ run EXCEPT
                  !.pc = IF run.record_count >= run.count
                         THEN "add_poison_pills" ELSE "next_node",
                  !.nodeidx = @ + 1 ]
    /\ UNCHANGED <<engine_vars, body_vars, worker_pool, protocol>>

\* The while loop ends: the file is closed, the tasks are joined, and the
\* loop over the nodes breaks when the count is reached.
RunNodeDone ==
    /\ run.pc = "while"
    /\ ~(record_ne_empty_str(run.mft_record) /\ run.record_count < run.count)
    /\ run' = [ run EXCEPT
                  !.pc = IF run.record_count >= run.count
                         THEN "add_poison_pills" ELSE "next_node",
                  !.nodeidx = @ + 1 ]
    /\ protocol' = Append(protocol, PoolCall("join_tasks"))
    /\ UNCHANGED <<engine_vars, body_vars, worker_pool>>

\* The calls behind the loop, one at a time: add_poison_pills,
\* join_workers, terminate, coalesce_files.
RunShutdown ==
    /\ run.pc \in ShutdownSteps
    /\ protocol' = Append(protocol, PoolCall(run.pc))
    /\ run' = [ run EXCEPT !.pc = AfterShutdownStep(run.pc) ]
    /\ UNCHANGED <<engine_vars, body_vars, worker_pool>>

NextRun ==
    \/ RunStart
    \/ RunNextNode
    \/ RunAddTask
    \/ RunNodeDone
    \/ RunShutdown

SpecRun == InitRun /\ [][NextRun]_vars

(***************************************************************************)
(* Properties of the entry decoding engine.                                *)
(***************************************************************************)
\* The last _parse_next_attribute call of object e decoded an attribute header.
HeaderDecoded(e) ==
    last[e].outcome \in
        { "body_decoded", "body_failed", "non_resident", "unknown_type", "stub" }

\* C1: parse() terminates: every iteration of the attribute scan loop either
\* moves the stream position forward by a strictly positive amount or ends
\* the scan.  (Stated of the state after an iteration: a scan that goes on
\* stands beyond the offset its last iteration started at.)
C1_IterationAdvancesOrEnds ==
    \A e \in Objects :
        (pc[e] = "scan" /\ last[e].start # NoOffset)
            => stream[e][1] > last[e].start

\* C2: an attribute header with record_length 0 (type code not
\* END_OF_ATTRIBUTES) halts the enumeration without raising, and the lists
\* hold exactly what was decoded before it.
C2_ZeroLengthHalts ==
    [][ \A e \in Objects :
          ( /\ pc[e] = "scan"
            /\ iterations'[e] = iterations[e] + 1
            /\ HeaderDecoded(e)'
            /\ attrs'[stream[e][1]].RecordLength = 0 )
          => ( pc'[e] = "done" /\ entry'[e].lists = entry[e].lists ) ]_vars

\* C3 as stated: every buffer shorter than 1024 bytes, those that hold a
\* complete entry header included, makes parse() fail as a whole, with no
\* header and no attribute recorded.
C3_ShortBufferFails ==
    \A e \in Objects :
        raw_entry.len < MFT_RECORD_SIZE
            => ( pc[e] \in { "none", "new", "raised" }
                 /\ entry[e] = MFTEntry_init )

\* C3 as amended: every buffer too short to hold a complete entry header
\* makes parse() raise, with a header of None and no attribute recorded.
C3_HeaderlessBufferFails ==
    \A e \in Objects :
        raw_entry.len < EntryHeaderSize
            => ( pc[e] \in { "none", "new", "raised" }
                 /\ entry[e] = MFTEntry_init )

C3_Witness ==
    raw_entry.len < EntryHeaderSize /\ pc[1] = "raised"

\* C4: an undecodable entry header is the only condition under which
\* parse() yields no entry: when the header decodes, parse() does not raise,
\* whatever the attribute bytes are.
C4_OnlyHeaderFailureRaises ==
    \A e \in Objects : pc[e] = "raised" => entry[e].header = None

\* C5: after _parse_next_attribute decoded an attribute header (type code
\* not END_OF_ATTRIBUTES) the stream position is the start of the attribute
\* plus its record_length: body decoded, body decoder failed, non-resident,
\* unknown type code (and stub decoder) alike.
C5_PositionAfterAttribute ==
    \A e \in Objects :
        (pc[e] = "scan" /\ HeaderDecoded(e))
            => stream[e][1] = last[e].start + attrs[last[e].start].RecordLength

C5_Witness ==
    /\ pc[1] = "scan"
    /\ last[1].outcome = "body_failed"
    /\ attrs[last[1].start].RecordLength > 0
    /\ stream[1][1] = last[1].start + attrs[last[1].start].RecordLength
    /\ pc[2] = "scan"
    /\ last[2].outcome \in { "non_resident", "unknown_type" }

WellFormedAt(e, p) ==
    LET d == attrs[p] IN
    /\ Lower(d.TypeCode) \in AttributeKeys
    /\ d.FormCode = 0
    /\ d.RecordLength > 0
    /\ p < raw_entry.UsedSize
    /\ Readable(raw_entry.len, p, AttributeHeaderSize(d))
    /\ BodyOutcome(d.TypeCode, BodyBytes(e, p, d)) \in { "body_decoded", "stub" }

\* The layout of the buffer read from offset p on: the offsets of the
\* attributes that stand back to back up to the terminator, and whether
\* all of them, and the terminator, are well formed.
RECURSIVE Layout(_, _, _)
Layout(e, p, fuel) ==
    IF fuel = 0 \/ p \notin DOMAIN attrs
    THEN [ ok |-> FALSE, at |-> <<>> ]
    ELSE IF attrs[p].TypeCode = "END_OF_ATTRIBUTES"
    THEN [ ok |-> p < raw_entry.UsedSize
                  /\ Readable(raw_entry.len, p, TypeCodeSize),
           at |-> <<>> ]
    ELSE LET rest == Layout(e, p + attrs[p].RecordLength, fuel - 1) IN
         [ ok |-> WellFormedAt(e, p) /\ rest.ok, at |-> <<p>> \o rest.at ]

EntryLayout(e) ==
    IF Readable(raw_entry.len, 0, EntryHeaderSize)
    THEN Layout(e, raw_entry.FirstAttributeOffset, MaxIter)
    ELSE [ ok |-> FALSE, at |-> <<>> ]

\* What the list of key k is to hold for a well-formed buffer: one element
\* per attribute of that type before the terminator, in buffer order.
ExpectedList(e, k) ==
    LET at == SelectSeq(EntryLayout(e).at,
                        LAMBDA p : Lower(attrs[p].TypeCode) = k) IN
    [ i \in 1..Len(at) |->
        [ header |-> [ TypeCode |-> attrs[at[i]].TypeCode,
                       RecordLength |-> attrs[at[i]].RecordLength,
                       FormCode |-> 0 ],
          body |-> IF k \in { "standard_information", "file_name" }
                   THEN Some([ Decoded |-> BodyBytes(e, at[i], attrs[at[i]]) ])
                   ELSE None ] ]

\* C7: for a well-formed entry parse() returns with exactly the attributes
\* that precede the terminator: one element per attribute in the list of
\* its type, in buffer order, and nothing else.
C7_WellFormedEntry ==
    \A e \in Objects :
        (pc[e] \in { "done", "raised" } /\ EntryLayout(e).ok)
            => /\ pc[e] = "done"
               /\ \A k \in AttributeKeys :
                     entry[e].lists[k] = ExpectedList(e, k)

\* Two attributes of one type with different bodies, then the terminator.
C7_Witness ==
    /\ pc[2] = "done"
    /\ EntryLayout(2).ok
    /\ Len(EntryLayout(2).at) = 2
    /\ last[2].outcome = "end"
    /\ \E k \in AttributeKeys :
          /\ Len(entry[2].lists[k]) = 2
          /\ entry[2].lists[k][1] # entry[2].lists[k][2]

\* C8: two decodes of the same buffer, each with its own MFTEntry, end the
\* same way with the same header and the same lists.
C8_Determinism ==
    (SameBuffer /\ Ended(1) /\ Ended(2))
        => entry[2] = entry[1] /\ pc[2] = pc[1]

C8_Witness ==
    /\ SameBuffer
    /\ pc[1] = "done"
    /\ pc[2] = "done"
    /\ Len(entry[2].lists["file_name"]) = 1
    /\ Len(entry[2].lists["standard_information"]) = 1
    /\ entry[2] = entry[1]

\* C9: a SECURITY_DESCRIPTOR whose header, owner SID and group SID are
\* decodable and whose DACL offset points outside the buffer is returned
\* with OwnerSID and GroupSID populated and DACL None; the decoder does not
\* fail the whole body.
DACLOutOfRange ==
    /\ call.fn = "security_descriptor"
    /\ Readable(call.len, call.header_position, SecurityDescriptorHeaderSize)
    /\ ~parse_sid(call.len, call.header_position + call.OwnerSIDOffset,
                  call.OwnerSubAuthorities).raised
    /\ ~parse_sid(call.len, call.header_position + call.GroupSIDOffset,
                  call.GroupSubAuthorities).raised
    /\ call.header_position + call.DACLOffset >= call.len

C9_DACLOutOfRangeKeepsSIDs ==
    (DACLOutOfRange /\ ret.state # "none") =>
        /\ ret.state = "returned"
        /\ ret.value # None
        /\ ret.value[1].OwnerSID # None
        /\ ret.value[1].GroupSID # None
        /\ ret.value[1].DACL = None

C9_Witness ==
    /\ DACLOutOfRange
    /\ ret.state = "returned"
    /\ ret.value[1].OwnerSID = Some([ SubAuthorityCount |-> 5 ])
    /\ ret.value[1].DACL = None

\* An entry of an ATTRIBUTE_LIST that lies, name included, within the
\* value and moves the decoder forward.
WellFormedEntry(c, i) ==
    LET x == c.entries[i] IN
    /\ x.AttributeTypeCode # "END_OF_ATTRIBUTES"
    /\ x.RecordLength >= AttributeListEntrySize
    /\ x.NameOk
    /\ x.AttributeNameOffset + 2 * x.AttributeNameLength <= x.RecordLength
    /\ EntryOffset(c.entries, i) + x.RecordLength <= c.ValueLength

\* The name of entry i would be read past the end of the value.
NameOverruns(c, i) ==
    /\ c.entries[i].AttributeTypeCode # "END_OF_ATTRIBUTES"
    /\ EntryOffset(c.entries, i) + c.entries[i].AttributeNameOffset
         + 2 * c.entries[i].AttributeNameLength > c.ValueLength

\* The number of entries a returned ATTRIBUTE_LIST body holds.
EntryCount(attributes) ==
    IF "file_name" \in DOMAIN attributes
    THEN Len(attributes["file_name"]) ELSE 0

\* C10: for an ATTRIBUTE_LIST whose first two entries are well formed and
\* whose third entry declares a name length that would read past the
\* value_length of the list, the decoder stops at the third entry and
\* returns exactly the first two entries.
C10_StopsBeforeOverrunningName ==
    ( /\ call.fn = "attribute_list"
      /\ WellFormedEntry(call, 1)
      /\ WellFormedEntry(call, 2)
      /\ NameOverruns(call, 3)
      /\ ret.state = "returned" ) =>
        EntryCount(ret.value[1]) = 2

\* C11: every record handed to worker_pool.add_task is MFT_RECORD_SIZE
\* bytes long, for every source file and at every point of the read loop,
\* the end of the file and a trailing partial record included.
C11_OnlyFullRecordsAreDecoded ==
    \A i \in 1..Len(worker_pool) :
        worker_pool[i].mft_record = MFT_RECORD_SIZE

\* The types whose body decoder decodes something.
DecodedKeys == { "standard_information", "file_name" }

\* C12, as claimed: an attribute is appended to the list of its type only
\* when its body decoded; after a failed body decoder nothing is appended.
C12_AppendedOnlyOnSuccess ==
    \A e \in Objects : \A k \in DecodedKeys :
        \A i \in 1..Len(entry[e].lists[k]) :
            entry[e].lists[k][i].body # None

\* The last call of _parse_next_attribute by object e ended in a body
\* decoder that failed.
BodyFailed(e) ==
    /\ pc[e] \in { "scan", "done" }
    /\ last[e].outcome = "body_failed"

\* C12, amended: when the body decoder of a resident attribute of a known
\* type fails, the attribute is still appended to the list of its type,
\* with its header and a body of None, and the scan continues behind it.
C12_FailedBodyAppendedAbsent ==
    \A e \in Objects :
        BodyFailed(e) =>
            LET d == attrs[last[e].start]
                list == entry[e].lists[Lower(d.TypeCode)]
                from == origin[e][Lower(d.TypeCode)] IN
            /\ Len(list) > 0
            /\ list[Len(list)].body = None
            /\ list[Len(list)].header = parse_attribute_header(d)
            /\ from[Len(from)] = last[e].start
            /\ pc[e] = "scan" => stream[e] = Some(last[e].start + d.RecordLength)

\* A failed STANDARD_INFORMATION body at 56 is recorded with body None
\* and the FILE_NAME behind it is decoded.
C12_Witness ==
    /\ pc[1] = "scan"
    /\ origin[1]["standard_information"] = << 56 >>
    /\ entry[1].lists["standard_information"][1].body = None
    /\ BodyBytes(1, 56, attrs[56]) = "bad"
    /\ origin[1]["file_name"] = << 152 >>
    /\ entry[1].lists["file_name"][1].body # None

\* The types whose body decoder is a stub.
StubKeys == { "data", "index_root", "index_allocation" }

\* The last call of _parse_next_attribute by object e met a resident
\* attribute of a stub type or of a type outside the known set.
NoDecoderFor(e) == last[e].outcome \in { "stub", "unknown_type" }

\* C13: a resident attribute of type DATA, INDEX_ROOT or INDEX_ALLOCATION,
\* or of a type outside the known set, gives no body and no error: parse()
\* does not raise on it, no decoded body is recorded for it (an attribute of
\* an unknown type is not recorded at all), and the scan goes on at the
\* next attribute.
C13_OutOfScopeTypesAreAbsent ==
    \A e \in Objects :
        /\ NoDecoderFor(e) =>
             /\ pc[e] # "raised"
             /\ pc[e] = "scan" =>
                  stream[e] = Some(last[e].start
                                   + attrs[last[e].start].RecordLength)
        /\ \A k \in StubKeys : \A i \in 1..Len(entry[e].lists[k]) :
             entry[e].lists[k][i].body = None
        /\ \A k \in AttributeKeys : \A i \in 1..Len(origin[e][k]) :
             Lower(attrs[origin[e][k][i]].TypeCode) = k

\* A DATA attribute at 56, an attribute of unknown type at 152 and a
\* decoded FILE_NAME at 248.
C13_Witness ==
    /\ pc[1] = "scan"
    /\ origin[1]["data"] = << 56 >>
    /\ entry[1].lists["data"][1].body = None
    /\ 152 \in DOMAIN attrs
    /\ attrs[152].TypeCode = "UNKNOWN"
    /\ origin[1]["file_name"] = << 248 >>
    /\ entry[1].lists["file_name"][1].body # None

\* C14: serialize() on a parsed MFTEntry returns without raising a mapping
\* in which no key begins with '_' or 'Raw', the internal _raw_entry and
\* _stream included, and leaves the MFTEntry unchanged.
C14_SerializeReturnsCleanMapping ==
    \A e \in Objects :
        ser[e] # NoResult =>
            /\ ser[e].state = "returned"
            /\ Hidden(ser[e].keys) = {}
            /\ AttributeKeys \subseteq ser[e].keys

\* The signature the magic m stands for.
SignatureOf(m) ==
    IF m = FILE_MAGIC THEN "FILE" ELSE IF m = BAAD_MAGIC THEN "BAAD" ELSE "CRPT"

\* C15: the signature is classified from the raw magic alone, and a corrupt
\* signature is not fatal: two buffers that differ in the magic only are
\* scanned over the same offsets and give the same attributes, and each
\* header carries the signature of its magic.
C15_SignatureDoesNotSteerTheScan ==
    /\ \A e \in Objects :
          entry[e].header # None =>
              entry[e].header[1].Signature = SignatureOf(RawEntry(e).RawSignature)
    /\ (corrupt.at = NoOffset /\ Ended(1) /\ Ended(2)) =>
          /\ pc[2] = pc[1]
          /\ entry[2].lists = entry[1].lists
          /\ origin[2] = origin[1]
          /\ last[2] = last[1]

\* A buffer with a magic that is neither FILE nor BAAD gives the two
\* attributes the FILE buffer gives.
C15_Witness ==
    /\ corrupt.at = NoOffset
    /\ corrupt.magic \notin { FILE_MAGIC, BAAD_MAGIC }
    /\ pc[1] = "done"
    /\ pc[2] = "done"
    /\ entry[1].header[1].Signature = "FILE"
    /\ entry[2].header[1].Signature = "CRPT"
    /\ origin[2]["standard_information"] = << 56 >>
    /\ origin[2]["file_name"] = << 152 >>
    /\ entry[2].lists = entry[1].lists

\* C16: the scan stops, recording nothing, at an attribute whose declared
\* extent, its start plus its RecordLength, exceeds the UsedSize of the
\* header: no attribute that ends beyond UsedSize is appended.
C16_NothingRecordedBeyondUsedSize ==
    \A e \in Objects : \A k \in AttributeKeys :
        \A i \in 1..Len(origin[e][k]) :
            origin[e][k][i] + attrs[origin[e][k][i]].RecordLength
                <= entry[e].header[1].UsedSize

\* The security descriptor header of the call is readable.
DescriptorHeaderReadable ==
    /\ call.fn = "security_descriptor"
    /\ Readable(call.len, call.header_position, SecurityDescriptorHeaderSize)

\* The SID at the given offset of the body of the call is readable.
SIDReadable(offset, n) ==
    ~parse_sid(call.len, call.header_position + offset, n).raised

\* C17: the components of a security descriptor are decoded independently,
\* each at the start of the body plus its own offset: a component that
\* fails to decode, the owner SID or the group SID included, is left absent
\* and the others are still decoded and returned.
C17_ComponentsDecodedIndependently ==
    (DescriptorHeaderReadable /\ ret.state # "none") =>
        /\ ret.state = "returned"
        /\ ret.value # None
        /\ ret.value[1].OwnerSID # None
             <=> SIDReadable(call.OwnerSIDOffset, call.OwnerSubAuthorities)
        /\ ret.value[1].GroupSID # None
             <=> SIDReadable(call.GroupSIDOffset, call.GroupSubAuthorities)

\* C18: for a decodable ACL header _parse_access_control_list returns an
\* ACL, not None, whose entry list holds the ACE headers met by walking
\* from each ACE to its start plus its declared size.
C18_DecodableACLIsReturned ==
    ( /\ call.fn = "security_descriptor"
      /\ ret.state = "returned"
      /\ Readable(call.len, call.header_position + call.DACLOffset,
                  ACLHeaderSize) ) =>
        /\ ret.value[1].DACL # None
        /\ ret.value[1].DACL[1].body =
             ace_walk(call.len,
                      call.header_position + call.DACLOffset + ACLHeaderSize,
                      call.acl.AclSize - ACLHeaderSize,
                      call.header_position + call.DACLOffset + ACLHeaderSize,
                      call.acl.aces, <<>>)

\* C19: an attribute header with NameLength > 0 whose name bytes lie
\* inside the buffer is returned with the name of NameLength UTF-16 code
\* units read at the start of the attribute plus NameOffset.
C19_NameIsDecoded ==
    ( /\ call.fn = "attribute_header"
      /\ ret.state = "returned"
      /\ call.NameLength > 0
      /\ call.NameOk
      /\ call.original_position + call.NameOffset + 2 * call.NameLength
           <= call.len ) =>
        ret.value[1].Name = Some([ units |-> call.NameLength ])

\* C20: the ATTRIBUTE_LIST decoder terminates for every input: an iteration
\* of its loop either moves the stream forward or ends the loop, and an
\* entry whose RecordLength is zero ends it.
C20_IterationAdvancesOrStops ==
    [][ (call.fn = "attribute_list" /\ al'.n = al.n + 1) =>
            \/ ret'.state = "returned"
            \/ /\ al'.tell > al.tell
               /\ EntryAt(call, al.tell).RecordLength # 0 ]_vars

\* C21: for a non-resident attribute whose header decodes no body decoder
\* is invoked and nothing is recorded, and the scan continues at the start
\* of the attribute plus its RecordLength.
C21_NonResidentIsSkipped ==
    \A e \in Objects :
        /\ last[e].outcome = "non_resident" =>
             /\ attrs[last[e].start].FormCode # 0
             /\ pc[e] # "raised"
             /\ pc[e] = "scan" =>
                  stream[e] = Some(last[e].start
                                   + attrs[last[e].start].RecordLength)
        /\ \A k \in AttributeKeys :
             /\ Len(origin[e][k]) = Len(entry[e].lists[k])
             /\ \A i \in 1..Len(origin[e][k]) :
                   attrs[origin[e][k][i]].FormCode = 0

\* A non-resident attribute at 56 leaves no trace and the FILE_NAME behind
\* it, at 152, is decoded.
C21_Witness ==
    /\ pc[1] = "done"
    /\ raw_entry.FirstAttributeOffset = 56
    /\ 56 \in DOMAIN attrs
    /\ attrs[56].FormCode = 1
    /\ attrs[56].RecordLength = 96
    /\ \A k \in AttributeKeys \ { "file_name" } : entry[1].lists[k] = <<>>
    /\ origin[1]["file_name"] = << 152 >>
    /\ entry[1].lists["file_name"][1].body # None

\* C22: parse() is idempotent on one MFTEntry: after a second parse() the
\* header and every attribute list are what they were after the first, no
\* attribute being recorded twice.
C22_ParseIsIdempotent ==
    \A e \in Objects :
        (first[e] # None /\ pc[e] = "done") => entry[e] = first[e][1]

\* The positions of the calls of one kind in the protocol.
Calls(op) == { i \in 1..Len(protocol) : protocol[i].op = op }

\* C23: the worker-pool protocol of run() is ordered and bounded: at most
\* args.count calls of add_task; the tasks of a file are joined before the
\* tasks of another file are added and before the poison pills;
\* add_poison_pills comes directly after the last join_tasks and is
\* followed by no add_task; join_workers precedes terminate, which
\* precedes the coalescing of the output files.
C23_PoolProtocol ==
    /\ Cardinality(Calls("add_task")) <= run.count
    /\ Cardinality(Calls("add_task")) = Len(worker_pool)
    /\ \A i \in Calls("add_task") : \A j \in (i + 1)..Len(protocol) :
          ( \/ protocol[j].op = "add_poison_pills"
            \/ protocol[j].op = "add_task"
                 /\ protocol[j].nodeidx # protocol[i].nodeidx ) =>
              \E m \in (i + 1)..(j - 1) :
                  /\ protocol[m].op = "join_tasks"
                  /\ protocol[m].nodeidx = protocol[i].nodeidx
    /\ \A i \in Calls("add_poison_pills") :
          /\ i > 1 /\ protocol[i - 1].op = "join_tasks"
          /\ \A j \in (i + 1)..Len(protocol) :
                protocol[j].op \notin { "start", "add_task", "join_tasks",
                                        "add_poison_pills" }
    /\ \A i \in Calls("join_workers") : protocol[i - 1].op = "add_poison_pills"
    /\ \A i \in Calls("terminate") : protocol[i - 1].op = "join_workers"
    /\ \A i \in Calls("coalesce_files") :
          protocol[i - 1].op = "terminate" /\ i = Len(protocol)
    /\ run.pc = "returned" =>
          \/ protocol = <<>>
          \/ protocol[Len(protocol)].op = "coalesce_files"

\* Two records of one file were handed out, joined, and the pool was shut
\* down in order.
C23_Witness ==
    /\ run.pc = "returned"
    /\ run.count = 2
    /\ Len(protocol) = 8
    /\ Calls("add_task") = { 2, 3 }
    /\ Calls("join_tasks") = { 4 }
    /\ protocol[5].op = "add_poison_pills"
    /\ protocol[8].op = "coalesce_files"

====
